---- MODULE Spec2Model ----
(***************************************************************************)
(* Model of .agents/roster_tool.py: the roster document codec              *)
(* (parse_roster / save_roster) and the command dispatcher (main).         *)
(*                                                                         *)
(* Text (the document, --spec and --patch arguments, stdout) is a sequence *)
(* of chunks.  A chunk is a piece of literal text: a label of the prose    *)
(* rendering, a JSON structural character, the marker "<!-- ROSTER_JSON:", *)
(* the end token "-->", or a piece of user text.  A JSON string value is   *)
(* the sequence of its chunks; a JSON array is a sequence of values; a     *)
(* JSON object is a function from key chunks to values.                    *)
(***************************************************************************)
EXTENDS Integers, Sequences, FiniteSets, TLC

\* ------------------------------------------------------------------ text
MARK == "<!-- ROSTER_JSON:"
END == "-->"
NL == "\n"
Q == "\""
\* In a value: a lone surrogate, a character the text encoding of the file
\* cannot encode.  In JSON text: its escape sequence \ud800, which
\* json.loads turns into the character and json.dumps writes back as the
\* escape.
SURROGATE == "U+D800"

\* dict.get(key, default)
Get(d, k, default) == IF k \in DOMAIN d THEN d[k] ELSE default

\* str(None), what an f-string renders for dict.get(key) on a missing key
NoneText == <<"None">>

RECURSIVE Concat(_)
\* "".join(parts)
Concat(parts) ==
    IF parts = <<>> THEN <<>> ELSE Head(parts) \o Concat(Tail(parts))

\* first index >= i with t[index] = c, or Len(t) + 1
Find(t, c, i) ==
    LET hits == {j \in i..Len(t) : t[j] = c} IN
    IF hits = {} THEN Len(t) + 1
    ELSE CHOOSE j \in hits : \A k \in hits : j <= k

\* c in t
Contains(t, c) == Find(t, c, 1) <= Len(t)

\* ------------------------------------------------------------ json.dumps
\* The type of a value is fixed by the key it is stored under (the data
\* model of the roster): these keys hold arrays of strings, these hold
\* objects of strings, every other key holds a string.
ListKeys == {"key_questions", "always_flags", "rotation_history"}
DictKeys == {"ledger", "meta"}

\* the order in which an object's keys are written
KeyOrder ==
    <<"meta", "personas", "rotation_history", "tensions",
      "name", "role", "mandate", "trust_model", "key_questions",
      "always_flags", "blind_spots", "ledger", "note",
      "rotation_rules", "checks",
      "current_stance", "warnings", "open_questions", "last_updated",
      "description", "options", "resolution", "residual_risk">>

DumpStr(s) == <<Q>> \o s \o <<Q>>

RECURSIVE JoinComma(_)
JoinComma(parts) ==
    IF parts = <<>> THEN <<>>
    ELSE IF Len(parts) = 1 THEN parts[1]
    ELSE parts[1] \o <<",">> \o JoinComma(Tail(parts))

DumpStrList(l) ==
    <<"[">> \o JoinComma([i \in 1..Len(l) |-> DumpStr(l[i])]) \o <<"]">>

\* the keys of d, in writing order
KeysOf(d) == SelectSeq(KeyOrder, LAMBDA k : k \in DOMAIN d)

DumpStrDict(d) ==
    LET ks == KeysOf(d) IN
    <<"{">>
    \o JoinComma([i \in 1..Len(ks) |->
                    DumpStr(<<ks[i]>>) \o <<":">> \o DumpStr(d[ks[i]])])
    \o <<"}">>

DumpMember(d, k) ==
    DumpStr(<<k>>) \o <<":">>
    \o (IF k \in ListKeys THEN DumpStrList(d[k])
        ELSE IF k \in DictKeys THEN DumpStrDict(d[k])
        ELSE DumpStr(d[k]))

\* a persona (or an --spec / --patch object)
DumpObj(d) ==
    LET ks == KeysOf(d) IN
    <<"{">> \o JoinComma([i \in 1..Len(ks) |-> DumpMember(d, ks[i])]) \o <<"}">>

DumpObjList(l) ==
    <<"[">> \o JoinComma([i \in 1..Len(l) |-> DumpObj(l[i])]) \o <<"]">>

DumpRosterMember(data, k) ==
    DumpStr(<<k>>) \o <<":">>
    \o (IF k \in {"personas", "tensions"} THEN DumpObjList(data[k])
        ELSE IF k \in ListKeys THEN DumpStrList(data[k])
        ELSE DumpStrDict(data[k]))

\* json.dumps(data, indent=2) of a roster
Dumps(data) ==
    LET ks == KeysOf(data) IN
    <<"{">> \o JoinComma([i \in 1..Len(ks) |-> DumpRosterMember(data, ks[i])])
    \o <<"}">>

\* ------------------------------------------------------------ json.loads
Fail == [ok |-> FALSE]
Ok(v, pos) == [ok |-> TRUE, val |-> v, pos |-> pos]

\* skip whitespace
RECURSIVE SkipWs(_, _)
SkipWs(t, i) == IF i <= Len(t) /\ t[i] = NL THEN SkipWs(t, i + 1) ELSE i

\* a string literal starting at the quote t[i]
ParseString(t, i) ==
    LET j == Find(t, Q, i + 1) IN
    IF j > Len(t) THEN Fail
    ELSE IF \E m \in (i + 1)..(j - 1) : t[m] = NL THEN Fail
    ELSE Ok(SubSeq(t, i + 1, j - 1), j + 1)

RECURSIVE ParseValue(_, _), ParseElems(_, _, _), ParseMembers(_, _, _)

\* a value starting at t[i]; returns the value and the position after it
ParseValue(t, i) ==
    IF i > Len(t) THEN Fail
    ELSE IF t[i] = Q THEN ParseString(t, i)
    ELSE IF t[i] = "[" THEN
        IF i + 1 <= Len(t) /\ t[i + 1] = "]" THEN Ok(<<>>, i + 2)
        ELSE ParseElems(t, i + 1, <<>>)
    ELSE IF t[i] = "{" THEN
        IF i + 1 <= Len(t) /\ t[i + 1] = "}" THEN Ok(<<>>, i + 2)
        ELSE ParseMembers(t, i + 1, <<>>)
    ELSE Fail

\* the elements of an array, t[i] being the start of an element
ParseElems(t, i, acc) ==
    LET r == ParseValue(t, i) IN
    IF ~r.ok THEN Fail
    ELSE IF r.pos > Len(t) THEN Fail
    ELSE IF t[r.pos] = "," THEN ParseElems(t, r.pos + 1, Append(acc, r.val))
    ELSE IF t[r.pos] = "]" THEN Ok(Append(acc, r.val), r.pos + 1)
    ELSE Fail

\* the members of an object, t[i] being the start of a key
ParseMembers(t, i, acc) ==
    IF i > Len(t) \/ t[i] # Q THEN Fail
    ELSE
      LET k == ParseString(t, i) IN
      IF ~k.ok THEN Fail
      ELSE IF Len(k.val) # 1 THEN Fail
      ELSE IF k.pos > Len(t) \/ t[k.pos] # ":" THEN Fail
      ELSE
        LET r == ParseValue(t, k.pos + 1) IN
        IF ~r.ok THEN Fail
        ELSE IF r.pos > Len(t) THEN Fail
        ELSE IF t[r.pos] = "," THEN
            ParseMembers(t, r.pos + 1, (k.val[1] :> r.val) @@ acc)
        ELSE IF t[r.pos] = "}" THEN
            Ok((k.val[1] :> r.val) @@ acc, r.pos + 1)
        ELSE Fail

\* json.loads(text): [ok |-> FALSE] stands for JSONDecodeError
Loads(t) ==
    LET r == ParseValue(t, SkipWs(t, 1)) IN
    IF ~r.ok THEN Fail
    ELSE IF SkipWs(t, r.pos) <= Len(t) THEN Fail
    ELSE [ok |-> TRUE, val |-> r.val]

\* isinstance(json.loads(text), dict), for a text that json.loads accepts
IsDictText(t) == t[SkipWs(t, 1)] = "{"

\* --------------------------------------------------------- the document
\* the file at ROSTER_PATH: absent, or present with its text
NoFile == [exists |-> FALSE]
FileOf(text) == [exists |-> TRUE, content |-> text]

\* parse_roster(): [ok |-> FALSE] stands for the JSONDecodeError it lets through
parse_roster(f) ==
    IF ~f.exists THEN [ok |-> TRUE, val |-> <<>>]
    ELSE IF Contains(f.content, MARK) THEN
        LET a == Find(f.content, MARK, 1)
            b == Find(f.content, MARK, a + 1)
            seg == SubSeq(f.content, a + 1, b - 1)
            json_str == SubSeq(seg, 1, Find(seg, END, 1) - 1)
        IN  Loads(json_str)
    ELSE [ok |-> TRUE, val |-> <<>>]

\* "  - {q}\n" for every q
Bullets(prefix, l) == Concat([i \in 1..Len(l) |-> <<prefix>> \o l[i] \o <<NL>>])

RenderMeta(meta) ==
    <<"## Meta Persona", NL>>
    \o <<"- **Name:** ">> \o Get(meta, "name", <<"Roster Steward">>) \o <<NL>>
    \o <<"- **Mandate:** ">> \o Get(meta, "mandate", <<>>) \o <<NL>>
    \o <<"- **Rotation Rules:** ">> \o Get(meta, "rotation_rules", <<>>) \o <<NL>>
    \o <<"- **Checks:** ">> \o Get(meta, "checks", <<>>) \o <<NL, NL>>

RenderPersona(i, p) ==
    LET ledger == Get(p, "ledger", <<>>) IN
    <<"### ", ToString(i), ") ">> \o Get(p, "name", NoneText) \o <<NL>>
    \o <<"- **Role:** ">> \o Get(p, "role", <<>>) \o <<NL>>
    \o <<"- **Mandate:** ">> \o Get(p, "mandate", <<>>) \o <<NL>>
    \o <<"- **Trust Model:** ">> \o Get(p, "trust_model", <<>>) \o <<NL>>
    \o <<"- **Key Questions:**", NL>>
    \o Bullets("  - ", Get(p, "key_questions", <<>>))
    \o <<"- **Always-Flags:**", NL>>
    \o Bullets("  - ", Get(p, "always_flags", <<>>))
    \o <<"- **Blind Spots:** ">> \o Get(p, "blind_spots", <<>>) \o <<NL>>
    \o <<"- **Ledger:**", NL>>
    \o <<"  - **Current stance:** ">> \o Get(ledger, "current_stance", <<>>) \o <<NL>>
    \o <<"  - **Warnings:** ">> \o Get(ledger, "warnings", <<>>) \o <<NL>>
    \o <<"  - **Open questions:** ">> \o Get(ledger, "open_questions", <<>>) \o <<NL>>
    \o <<"  - **Last updated:** ">> \o Get(ledger, "last_updated", <<>>) \o <<NL, NL>>

RenderTension(tension) ==
    <<"- Tension: ">> \o Get(tension, "description", NoneText) \o <<NL>>
    \o <<"  - Options: ">> \o Get(tension, "options", NoneText) \o <<NL>>
    \o <<"  - Current resolution: ">> \o Get(tension, "resolution", NoneText) \o <<NL>>
    \o <<"  - Residual risk: ">> \o Get(tension, "residual_risk", NoneText) \o <<NL>>

\* md up to the embedded block: the rendering of the values as they are
\* (the en dash of the heading is written "-")
RenderProse(data) ==
    LET personas == Get(data, "personas", <<>>)
        tensions == Get(data, "tensions", <<>>)
    IN
    <<"# Persona Roster (Persistent)", NL, NL>>
    \o RenderMeta(Get(data, "meta", <<>>))
    \o <<"## Active Personas (4-7 total including Meta)", NL, NL>>
    \o Concat([i \in 1..Len(personas) |-> RenderPersona(i, personas[i])])
    \o <<"## Rotation History", NL>>
    \o Bullets("- ", Get(data, "rotation_history", <<>>))
    \o <<NL>>
    \o <<"## Open Tensions / Tradeoffs", NL>>
    \o Concat([i \in 1..Len(tensions) |-> RenderTension(tensions[i])])

\* the text md that save_roster(data) builds before it opens the file
Render(data) ==
    RenderProse(data) \o <<NL, MARK, NL>> \o Dumps(data) \o <<NL, END>>

\* The prose of md holds the values as they are, the embedded block holds
\* them escaped: f.write(md) raises UnicodeEncodeError when the prose has a
\* character the encoding lacks.
WriteFails(data) == Contains(RenderProse(data), SURROGATE)

\* the file after save_roster(data): open(ROSTER_PATH, "w") has truncated
\* it, and f.write(md) writes all of md or, raising, nothing
save_roster(data) ==
    IF WriteFails(data) THEN FileOf(<<>>) ELSE FileOf(Render(data))

\* how an invocation that called save_roster(data) ends
SaveStatus(data) ==
    IF WriteFails(data) THEN "UnicodeEncodeError" ELSE "exit0"

\* ------------------------------------------------------------ dispatcher
\* the default scaffold main() builds when parse_roster() returns {}
Scaffold ==
    [meta |->
        [name |-> <<"Roster Steward">>,
         mandate |-> <<"Govern roster stability, decide when to rotate personas, and enforce protocol quality gates.">>,
         rotation_rules |-> <<"Max 1 swap per user turn; default is stability; rotate on domain shift or repeated failure modes.">>,
         checks |-> <<"Calibration (atomic/compound/systemic), utilization (no theater), decision trace required, red-team required when warranted.">>],
     personas |-> <<>>,
     rotation_history |-> <<>>,
     tensions |-> <<>>]

\* data = parse_roster(); if not data: data = {scaffold}
\* (raw is what parse_roster returned, or its JSONDecodeError)
LoadData(raw) ==
    IF ~raw.ok THEN raw
    ELSE IF DOMAIN raw.val = {} THEN [ok |-> TRUE, val |-> Scaffold]
    ELSE raw

\* What one invocation does after the load: its exit status ("exit0",
\* "exit1", or the name of the exception that ends it), what it prints, and
\* whether it reaches the open() of save_roster, and with which data.
Res(st, o) == [status |-> st, out |-> o, save |-> FALSE, data |-> <<>>]
Saved(d) == [status |-> SaveStatus(d), out |-> <<>>, save |-> TRUE, data |-> d]

FailMsg == <<"Validation failed: At least 3 personas required for non-atomic tasks.", NL>>
PassMsg == <<"Validation passed.", NL>>
MinPersonas == 3

\* a get that also calls save_roster(data)
RunGetPersist(data) ==
    [status |-> SaveStatus(data), out |-> Dumps(data) \o <<NL>>, save |-> TRUE, data |-> data]

\* print(json.dumps(data, indent=2))
RunGet(data) == Res("exit0", Dumps(data) \o <<NL>>)

\* a validate that compares with <= instead of <
RunValidateOffByOne(data) ==
    IF Len(Get(data, "personas", <<>>)) <= MinPersonas
    THEN Res("exit1", FailMsg)
    ELSE Res("exit0", PassMsg)

RunValidate(data) ==
    IF Len(Get(data, "personas", <<>>)) < MinPersonas
    THEN Res("exit1", FailMsg)
    ELSE Res("exit0", PassMsg)

\* for p in personas: if p["name"] == name: ... break
\* the index of the first match, 0 when the loop ends without one, -1 when
\* p["name"] raises KeyError first
RECURSIVE FirstMatch(_, _, _)
FirstMatch(personas, name, i) ==
    IF i > Len(personas) THEN 0
    ELSE IF "name" \notin DOMAIN personas[i] THEN -1
    ELSE IF personas[i].name = name THEN i
    ELSE FirstMatch(personas, name, i + 1)

\* p.update(patch)
Update(p, patch) == patch @@ p

\* p.setdefault("ledger", {}).update(patch)
UpdateLedgerOf(p, patch) ==
    ("ledger" :> Update(Get(p, "ledger", <<>>), patch)) @@ p

RunUpdatePersona(data, name, patchText) ==
    LET patch == Loads(patchText) IN
    IF ~patch.ok THEN Res("JSONDecodeError", <<>>)
    ELSE IF "personas" \notin DOMAIN data THEN Res("KeyError", <<>>)
    ELSE
      LET m == FirstMatch(data.personas, name, 1) IN
      IF m = -1 THEN Res("KeyError", <<>>)
      ELSE IF m = 0 THEN Saved(data)
      ELSE IF ~IsDictText(patchText) THEN Res("ValueError", <<>>)
      ELSE Saved([data EXCEPT !.personas[m] = Update(@, patch.val)])

RunAddPersona(data, specText) ==
    LET spec == Loads(specText) IN
    IF ~spec.ok THEN Res("JSONDecodeError", <<>>)
    ELSE IF "personas" \notin DOMAIN data THEN Res("KeyError", <<>>)
    \* save_roster: p.get on a persona that is no dict, before the open()
    ELSE IF ~IsDictText(specText) THEN Res("AttributeError", <<>>)
    ELSE Saved([data EXCEPT !.personas = Append(@, spec.val)])

RunUpdateLedger(data, name, patchText) ==
    LET patch == Loads(patchText) IN
    IF ~patch.ok THEN Res("JSONDecodeError", <<>>)
    ELSE IF "personas" \notin DOMAIN data THEN Res("KeyError", <<>>)
    ELSE
      LET m == FirstMatch(data.personas, name, 1) IN
      IF m = -1 THEN Res("KeyError", <<>>)
      ELSE IF m = 0 THEN Saved(data)
      ELSE IF ~IsDictText(patchText) THEN Res("ValueError", <<>>)
      ELSE Saved([data EXCEPT !.personas[m] = UpdateLedgerOf(@, patch.val)])

\* a command line
Cmd(c, n, a) == [command |-> c, name |-> n, arg |-> a]

\* main() from the load on: raw is what parse_roster() returned
Dispatch(c, raw) ==
    LET cur == LoadData(raw) IN
    IF ~cur.ok THEN Res("JSONDecodeError", <<>>)
    ELSE IF c.command = "get" THEN RunGet(cur.val)
    ELSE IF c.command = "update-persona" THEN RunUpdatePersona(cur.val, c.name, c.arg)
    ELSE IF c.command = "add-persona" THEN RunAddPersona(cur.val, c.arg)
    ELSE IF c.command = "update-ledger" THEN RunUpdateLedger(cur.val, c.name, c.arg)
    ELSE RunValidate(cur.val)

\* main()
Main(c, f) == Dispatch(c, parse_roster(f))

\* ------------------------------------------------------------ the inputs
MaxPersonas == 3

NameX == <<"X">>
NameMiss == <<"Nonexistent">>
Names == {NameX, NameMiss}

PersonaA == [name |-> NameX, role |-> <<"r1">>]
PersonaB == [name |-> NameX, role |-> <<"r2">>,
             ledger |-> [current_stance |-> <<"s1">>]]
PersonaNoName == [role |-> <<"r0">>]
PersonaEnd == [name |-> <<"Y", END>>]
PersonaSurrogate == [name |-> <<SURROGATE>>]
Personas == {PersonaA, PersonaB, PersonaNoName, PersonaEnd, PersonaSurrogate}

\* a text json.loads rejects, and one it accepts that is no object
BadText == <<"{">>
StrText == DumpStr(<<"x">>)

SpecTexts == {DumpObj(p) : p \in Personas} \cup {BadText, StrText}

PatchRole == [role |-> <<"r3">>]
PatchLedger == [ledger |-> [warnings |-> <<"w1">>]]
PatchTexts == {DumpObj(PatchRole), DumpObj(PatchLedger), BadText, StrText}

LedgerPatch == [warnings |-> <<"w2">>]
LedgerPatchTexts == {DumpStrDict(LedgerPatch), BadText}

\* a roster some earlier session left behind
Roster0 ==
    [meta |-> [mandate |-> <<"m1">>],
     personas |-> <<>>,
     rotation_history |-> << <<"h1">> >>,
     tensions |-> << [description |-> <<"d1">>] >>]

\* the documents an invocation may find: none, one without the embedded
\* block, one whose block is malformed, one whose roster has no personas
\* key, and one written by save_roster
InitFiles ==
    {NoFile,
     FileOf(<<"# notes", NL>>),
     FileOf(<<MARK, NL, "{", NL, END>>),
     FileOf(<<MARK, NL>> \o Dumps([rotation_history |-> << <<"h1">> >>]) \o <<NL, END>>),
     save_roster(Roster0)}

\* ------------------------------------------------------------- the state
VARIABLES
    file,     \* the document at ROSTER_PATH
    prev,     \* the document as the running invocation found it
    cmd,      \* the running invocation's command line, NoCmd between two
    loaded,   \* what its parse_roster() returned
    status,   \* how it ended
    out,      \* what it printed
    saved,    \* the data it passed to save_roster, if it got there
    lastGet,  \* what the invocation before it printed, if that was a get
    procs,    \* the two concurrent invocations: where each is, and its md
    writers   \* the invocations that completed their write, in order

vars == <<file, prev, cmd, loaded, status, out, saved, lastGet, procs, writers>>

Procs == {"p1", "p2"}
NoCmd == Cmd("none", <<>>, <<>>)
NoData == [some |-> FALSE]
NoLoad == [ok |-> FALSE]
Idle == [pc |-> "start", md |-> <<>>, fails |-> FALSE, c |-> NoCmd]

Quiet ==
    /\ prev = file
    /\ cmd = NoCmd
    /\ loaded = NoLoad
    /\ status = "none"
    /\ out = <<>>
    /\ saved = NoData
    /\ lastGet = NoData
    /\ procs = [p \in Procs |-> Idle]
    /\ writers = <<>>

Init == file \in InitFiles /\ Quiet

\* one whole invocation of the tool, alone on the document
Invoke(c) ==
    /\ \E raw \in {parse_roster(file)} :
         \E r \in {Dispatch(c, raw)} :
            /\ prev' = file
            /\ cmd' = c
            /\ loaded' = raw
            /\ status' = r.status
            /\ out' = r.out
            /\ file' = IF r.save THEN save_roster(r.data) ELSE file
            /\ saved' = IF r.save THEN [some |-> TRUE, data |-> r.data] ELSE NoData
    /\ UNCHANGED <<lastGet, procs, writers>>

\* the process is gone: nothing of it remains but the document (and, for
\* the next invocation to be compared with, what a get printed)
Exit ==
    /\ cmd # NoCmd
    /\ prev' = file
    /\ cmd' = NoCmd
    /\ loaded' = NoLoad
    /\ status' = "none"
    /\ out' = <<>>
    /\ saved' = NoData
    /\ lastGet' = IF cmd.command = "get"
                  THEN [some |-> TRUE, out |-> out, status |-> status]
                  ELSE NoData
    /\ UNCHANGED <<file, procs, writers>>

\* the roster has room for one more persona (the bound of the model)
Room(f) ==
    LET cur == LoadData(parse_roster(f)) IN
    IF ~cur.ok THEN TRUE
    ELSE IF "personas" \notin DOMAIN cur.val THEN TRUE
    ELSE Len(cur.val.personas) < MaxPersonas

GetCmd ==
    /\ cmd = NoCmd
    /\ Invoke(Cmd("get", <<>>, <<>>))

ValidateCmd ==
    /\ cmd = NoCmd
    /\ Invoke(Cmd("validate", <<>>, <<>>))

UpdatePersonaCmd ==
    /\ cmd = NoCmd
    /\ \E n \in Names, t \in PatchTexts : Invoke(Cmd("update-persona", n, t))

AddPersonaCmd ==
    /\ cmd = NoCmd
    /\ Room(file)
    /\ \E t \in SpecTexts : Invoke(Cmd("add-persona", <<>>, t))

UpdateLedgerCmd ==
    /\ cmd = NoCmd
    /\ \E n \in Names, t \in LedgerPatchTexts : Invoke(Cmd("update-ledger", n, t))

Next ==
    \/ GetCmd
    \/ ValidateCmd
    \/ UpdatePersonaCmd
    \/ AddPersonaCmd
    \/ UpdateLedgerCmd
    \/ Exit

Spec == Init /\ [][Next]_vars

\* ------------------------------------------- two invocations at the same time
\* f.write(md) on a file opened with "w": md at offset 0, over what is there
Overlay(md, old) == md \o SubSeq(old, Len(md) + 1, Len(old))

ConcCmds ==
    {Cmd("add-persona", <<>>, DumpObj(PersonaA)),
     Cmd("add-persona", <<>>, DumpObj(PersonaB)),
     Cmd("update-persona", NameX, DumpObj(PatchRole)),
     Cmd("get", <<>>, <<>>)}

InitConcFiles ==
    {NoFile, save_roster(Roster0),
     save_roster([Scaffold EXCEPT !.personas = <<PersonaA>>])}

InitConc == file \in InitConcFiles /\ Quiet

\* parse_roster() and the command, up to the md that save_roster builds
CLoad(p) ==
    /\ procs[p].pc = "start"
    /\ \E c \in ConcCmds :
         \E r \in {Main(c, file)} :
         procs' = [procs EXCEPT ![p] =
                     [pc |-> IF r.save THEN "built" ELSE "exit",
                      md |-> IF r.save THEN Render(r.data) ELSE <<>>,
                      fails |-> r.save /\ WriteFails(r.data),
                      c |-> c]]
    /\ UNCHANGED <<file, prev, cmd, loaded, status, out, saved, lastGet, writers>>

\* open(ROSTER_PATH, "w"): creates or truncates
COpen(p) ==
    /\ procs[p].pc = "built"
    /\ file' = FileOf(<<>>)
    /\ procs' = [procs EXCEPT ![p].pc = "opened"]
    /\ UNCHANGED <<prev, cmd, loaded, status, out, saved, lastGet, writers>>

\* f.write(md) and the close
CWrite(p) ==
    /\ procs[p].pc = "opened"
    /\ file' = IF procs[p].fails THEN file
               ELSE FileOf(Overlay(procs[p].md, file.content))
    /\ procs' = [procs EXCEPT ![p].pc = "exit"]
    /\ writers' = IF procs[p].fails THEN writers ELSE Append(writers, p)
    /\ UNCHANGED <<prev, cmd, loaded, status, out, saved, lastGet>>

NextConc == \E p \in Procs : CLoad(p) \/ COpen(p) \/ CWrite(p)

SpecConc == InitConc /\ [][NextConc]_vars

\* ------------------------------------------------- the codec on its own
MaxCodecLen == 1

Strs == {<<"a">>, <<"a", END>>, <<MARK>>}

CodecMetas == {[name |-> s, mandate |-> <<"m">>] : s \in Strs} \cup {[mandate |-> <<"m">>]}

CodecPersonas ==
    {[name |-> s] : s \in Strs}
    \cup {[role |-> s, key_questions |-> <<s>>, ledger |-> [warnings |-> s]] : s \in Strs}

CodecTensions ==
    {<<>>,
     << [description |-> <<"d">>] >>,
     << [description |-> <<"d">>, options |-> <<"o">>,
         resolution |-> <<"r">>, residual_risk |-> <<"k">>] >>}

CodecRosters ==
    {[meta |-> m, personas |-> ps, rotation_history |-> h, tensions |-> t] :
        m \in CodecMetas,
        ps \in UNION {[1..n -> CodecPersonas] : n \in 0..MaxCodecLen},
        h \in {<<>>, << <<"h">> >>},
        t \in CodecTensions}

InitCodec ==
    /\ file = NoFile
    /\ prev = file
    /\ cmd = NoCmd
    /\ loaded = NoLoad
    /\ status = "none"
    /\ out = <<>>
    /\ saved \in {[some |-> TRUE, data |-> R] : R \in CodecRosters}
    /\ lastGet = NoData
    /\ procs = [p \in Procs |-> Idle]
    /\ writers = <<>>

\* save_roster(data)
CodecSave ==
    /\ status = "none"
    /\ file' = save_roster(saved.data)
    /\ status' = "saved"
    /\ UNCHANGED <<prev, cmd, loaded, out, saved, lastGet, procs, writers>>

\* parse_roster()
CodecLoad ==
    /\ status = "saved"
    /\ loaded' = parse_roster(file)
    /\ status' = "loaded"
    /\ UNCHANGED <<file, prev, cmd, out, saved, lastGet, procs, writers>>

NextCodec == CodecSave \/ CodecLoad

SpecCodec == InitCodec /\ [][NextCodec]_vars

\* ------------------------------------------------------------ the claims
\* the roster the running invocation worked on, and the one now persisted
Before == LoadData(loaded)
After == parse_roster(file)

Ran(command) == cmd.command = command

Named(p, n) == "name" \in DOMAIN p /\ p.name = n
Matches(personas, n) == {i \in 1..Len(personas) : Named(personas[i], n)}
Least(S) == CHOOSE i \in S : \A j \in S : i <= j

\* d with the keys of patch overwritten or added
Merged(d, patch) ==
    [k \in DOMAIN d \cup DOMAIN patch |-> IF k \in DOMAIN patch THEN patch[k] ELSE d[k]]

PatchIsObject == Loads(cmd.arg).ok /\ IsDictText(cmd.arg)

\* C1: decoding the document save_roster(R) wrote yields R, also when
\* strings of R contain the marker or the end token
C1_RoundTrip ==
    status = "loaded" => loaded.ok /\ loaded.val = saved.data

\* C2: update-persona with a patch object changes the first persona named
\* N by a shallow merge and leaves the rest of the persisted roster unchanged
C2_UpdateFirstMatch ==
    (/\ Ran("update-persona")
     /\ Before.ok
     /\ "personas" \in DOMAIN Before.val
     /\ PatchIsObject
     /\ Matches(Before.val.personas, cmd.name) # {})
    =>
    LET m == Least(Matches(Before.val.personas, cmd.name))
        old == Before.val.personas[m]
    IN  /\ After.ok
        /\ After.val =
             [Before.val EXCEPT !.personas[m] = Merged(old, Loads(cmd.arg).val)]

\* C3: an update command whose name matches no persona raises no error,
\* leaves the roster as it was and still rewrites the document
C3_NoOpOnMiss ==
    (/\ Ran("update-persona") \/ Ran("update-ledger")
     /\ Before.ok
     /\ "personas" \in DOMAIN Before.val
     /\ Loads(cmd.arg).ok
     /\ Matches(Before.val.personas, cmd.name) = {})
    =>
    /\ status = "exit0"
    /\ saved.some
    /\ saved.data = Before.val
    /\ file = save_roster(Before.val)

\* C4: update-ledger merges the patch into the ledger of the first persona
\* named N (the ledger is the patch when there was none) and changes
\* nothing else
C4_LedgerMerge ==
    (/\ Ran("update-ledger")
     /\ Before.ok
     /\ "personas" \in DOMAIN Before.val
     /\ PatchIsObject
     /\ Matches(Before.val.personas, cmd.name) # {})
    =>
    LET m == Least(Matches(Before.val.personas, cmd.name))
        old == Before.val.personas[m]
        patch == Loads(cmd.arg).val
        ledger == IF "ledger" \in DOMAIN old THEN Merged(old.ledger, patch) ELSE patch
    IN  /\ After.ok
        /\ After.val =
             [Before.val EXCEPT !.personas[m] = Merged(old, [ledger |-> ledger])]

\* C5: after a successful add-persona the persisted personas are the
\* earlier ones, in place, followed by the added spec
C5_AddAppends ==
    (Ran("add-persona") /\ status = "exit0")
    =>
    /\ After.ok
    /\ "personas" \in DOMAIN After.val
    /\ After.val.personas = Append(Before.val.personas, Loads(cmd.arg).val)

\* C6: validate passes (exit status 0, the success message) exactly when
\* the current roster has at least 3 personas, and fails (exit status 1,
\* the failure message) with 2 or fewer
C6_ValidateBoundary ==
    (Ran("validate") /\ Before.ok)
    =>
    LET n == Len(Get(Before.val, "personas", <<>>)) IN
    /\ n >= 3 => status = "exit0" /\ out = PassMsg
    /\ n <= 2 => status = "exit1" /\ out = FailMsg

C6_Witness ==
    /\ Ran("validate")
    /\ Before.ok
    /\ Len(Get(Before.val, "personas", <<>>)) = 3
    /\ status = "exit0"

\* C7: an invocation that does not end with exit status 0 leaves the
\* document as it found it, absent if it was absent
C7_AbortKeepsDocument ==
    (cmd # NoCmd /\ status # "exit0") => file = prev

\* C8: get neither creates nor rewrites the document, and a get right after
\* a get prints the same
C8_GetReadOnly ==
    Ran("get")
    =>
    /\ file = prev
    /\ ~saved.some
    /\ lastGet.some => out = lastGet.out /\ status = lastGet.status

\* the second of two gets in a row, no document being there
C8_Witness ==
    /\ Ran("get")
    /\ lastGet.some
    /\ status = "exit0"
    /\ ~file.exists

\* C9: when both concurrent invocations are done, the document is the
\* whole text of the one that wrote last
C9_LastWriterWins ==
    ((\A p \in Procs : procs[p].pc = "exit") /\ writers # <<>>)
    => file.content = procs[writers[Len(writers)]].md

\* the line of text t that starts at index s
LineAt(t, s) == SubSeq(t, s, Find(t, NL, s) - 1)
\* where the lines of t with first chunk label start
LinesOf(t, label) ==
    {s \in 1..Len(t) : t[s] = label /\ (s = 1 \/ t[s - 1] = NL)}

\* C10: in the document save_roster wrote, what follows a label is the
\* field's value, and nothing when the field is missing
C10_MissingRendersEmpty ==
    status = "saved"
    =>
    LET t == file.content
        data == saved.data
    IN
    /\ \A s \in LinesOf(t, "- **Name:** ") :
          LineAt(t, s) = <<"- **Name:** ">> \o Get(data.meta, "name", <<>>)
    /\ \A s \in LinesOf(t, "### ") :
          \E i \in 1..Len(data.personas) :
             LineAt(t, s) = <<"### ", ToString(i), ") ">>
                              \o Get(data.personas[i], "name", <<>>)
    /\ \A s \in LinesOf(t, "  - Options: ") :
          \E i \in 1..Len(data.tensions) :
             LineAt(t, s) = <<"  - Options: ">>
                              \o Get(data.tensions[i], "options", <<>>)
====
